---- MODULE Spec2Model ----
(***************************************************************************)
(* Model of metpy/interpolate/geometry.py: triangle circumgeometry,        *)
(* natural-neighbour discovery (find_natural_neighbors,                    *)
(* find_nn_triangles_point), boundary assembly (find_local_boundary),      *)
(* edge ordering (order_edges) and the shoelace area (area).               *)
(*                                                                         *)
(* Numbers.  Coordinates of sample points and query points are integers.   *)
(* Every derived quantity is kept exact: a rational is a pair <<n, d>> in  *)
(* lowest terms with d > 0, and a non-negative real produced by math.sqrt  *)
(* is the record [sq |-> q] holding its square.  A float result is the     *)
(* record [nan |-> FALSE, v |-> value] or, for np.nan, [nan |-> TRUE].     *)
(* A call of circumcenter yields [raised |-> FALSE, cc |-> <<cx, cy>>] or, *)
(* when it raises ZeroDivisionError, [raised |-> TRUE].                    *)
(* Rounding of IEEE doubles is not modelled.                               *)
(*                                                                         *)
(* Indices.  Vertex codes and simplex codes are 0-based as in the source;  *)
(* TLA+ sequences are 1-based, so row i of an array a is a[i + 1].         *)
(***************************************************************************)
EXTENDS Integers, Sequences, FiniteSets, Bags, TLC

\* ------------------------------------------------------------------ bounds
\* largest side of the square triangulations
MaxSide == 2
\* query points of find_nn_triangles_point have coordinates in 0..MaxCoord
MaxCoord == 3
\* longest list of grid points handed to find_natural_neighbors
MaxGrid == 2
\* the same, when the simplices are processed in an arbitrary order
MaxGridAnyOrder == 1
\* longest list of simplex codes handed to find_local_boundary
MaxTris == 3
\* longest free edge list handed to order_edges
MaxEdges == 3

\* --------------------------------------------------------- exact arithmetic
Abs(n) == IF n < 0 THEN -n ELSE n

RECURSIVE GCD(_, _)
GCD(a, b) == IF b = 0 THEN a ELSE GCD(b, a % b)

\* the rational n/d in lowest terms, d > 0
Rat(n, d) ==
  LET g == GCD(Abs(n), Abs(d))
      s == IF d < 0 THEN -1 ELSE 1
  IN  <<(s * n) \div g, (s * d) \div g>>

R(n) == <<n, 1>>
RAdd(p, q) == Rat(p[1] * q[2] + q[1] * p[2], p[2] * q[2])
RSub(p, q) == Rat(p[1] * q[2] - q[1] * p[2], p[2] * q[2])
RMul(p, q) == Rat(p[1] * q[1], p[2] * q[2])
RDiv(p, q) == Rat(p[1] * q[2], p[2] * q[1])
RLess(p, q) == p[1] * q[2] < q[1] * p[2]
RLeq(p, q) == p[1] * q[2] <= q[1] * p[2]

\* math.sqrt(q), kept as the value whose square is q
Sqrt(q) == [sq |-> q]
\* product of two square roots
SMul(a, b) == [sq |-> RMul(a.sq, b.sq)]
\* a square root divided by a positive rational
SDivR(a, q) == [sq |-> RDiv(a.sq, RMul(q, q))]
\* a * a for a square root a
SSquare(a) == a.sq
\* x <= y for non-negative reals
SLeq(a, b) == RLeq(a.sq, b.sq)

NaN == [nan |-> TRUE]
Num(v) == [nan |-> FALSE, v |-> v]
ZeroDivisionError == [raised |-> TRUE]

\* ------------------------------------------------------- triangle geometry
\* triangle_area(pt1, pt2, pt3): abs(shoelace sum) / 2
triangle_area(pt1, pt2, pt3) ==
  LET a1 == pt1[1] * pt2[2] - pt2[1] * pt1[2]
      a2 == a1 + (pt2[1] * pt3[2] - pt3[1] * pt2[2])
      a3 == a2 + (pt3[1] * pt1[2] - pt1[1] * pt3[2])
  IN  RDiv(R(Abs(a3)), R(2))

\* dist_2(x0, y0, x1, y1) on rationals
dist_2(x0, y0, x1, y1) ==
  LET d0 == RSub(x1, x0)
      d1 == RSub(y1, y0)
  IN  RAdd(RMul(d0, d0), RMul(d1, d1))

\* distance(p0, p1) on integer points
distance(p0, p1) == Sqrt(dist_2(R(p0[1]), R(p0[2]), R(p1[1]), R(p1[2])))

\* circumcircle_radius_2(pt0, pt1, pt2): squared radius, or nan
circumcircle_radius_2(pt0, pt1, pt2) ==
  LET a == distance(pt0, pt1)
      b == distance(pt1, pt2)
      c == distance(pt2, pt0)
      t_area == triangle_area(pt0, pt1, pt2)
      prod2 == SMul(SMul(a, b), c)
  IN  IF RLess(R(0), t_area)
      THEN Num(RDiv(SSquare(prod2), RMul(RMul(R(16), t_area), t_area)))
      ELSE NaN

\* circumcircle_radius(pt0, pt1, pt2): radius, or nan
circumcircle_radius(pt0, pt1, pt2) ==
  LET a == distance(pt0, pt1)
      b == distance(pt1, pt2)
      c == distance(pt2, pt0)
      t_area == triangle_area(pt0, pt1, pt2)
  IN  IF RLess(R(0), t_area)
      THEN Num(SDivR(SMul(SMul(a, b), c), RMul(R(4), t_area)))
      ELSE NaN

\* circumcenter(pt0, pt1, pt2): <<cx, cy>>, or the raised ZeroDivisionError
circumcenter(pt0, pt1, pt2) ==
  LET a_x == pt0[1]  a_y == pt0[2]
      b_x == pt1[1]  b_y == pt1[2]
      c_x == pt2[1]  c_y == pt2[2]
      bc_y_diff == b_y - c_y
      ca_y_diff == c_y - a_y
      ab_y_diff == a_y - b_y
      cb_x_diff == c_x - b_x
      ac_x_diff == a_x - c_x
      ba_x_diff == b_x - a_x
      d_div == a_x * bc_y_diff + b_x * ca_y_diff + c_x * ab_y_diff
      d_inv == RDiv(<<1, 2>>, R(d_div))
      a_mag == a_x * a_x + a_y * a_y
      b_mag == b_x * b_x + b_y * b_y
      c_mag == c_x * c_x + c_y * c_y
      cx == RMul(R(a_mag * bc_y_diff + b_mag * ca_y_diff + c_mag * ab_y_diff),
                 d_inv)
      cy == RMul(R(a_mag * cb_x_diff + b_mag * ac_x_diff + c_mag * ba_x_diff),
                 d_inv)
  IN  IF d_div = 0 THEN ZeroDivisionError
                   ELSE [raised |-> FALSE, cc |-> <<cx, cy>>]

\* ------------------------------------------------- Python and numpy lists
\* x in lst
In(x, lst) == \E k \in 1..Len(lst) : lst[k] = x

\* index of the first element equal to x
FirstIndex(lst, x) == CHOOSE k \in 1..Len(lst) :
                        lst[k] = x /\ \A j \in 1..(k - 1) : lst[j] # x

\* lst.remove(x): drops the first element equal to x (x is in lst)
ListRemove(lst, x) ==
  LET k == FirstIndex(lst, x)
  IN  [j \in 1..(Len(lst) - 1) |-> IF j < k THEN lst[j] ELSE lst[j + 1]]

\* arr[i] with Python index wraparound: a negative i counts from the end
Row(arr, i) == IF i < 0 THEN arr[Len(arr) + i + 1] ELSE arr[i + 1]

ToSet(lst) == {lst[k] : k \in 1..Len(lst)}

SeqsUpTo(S, n) == UNION {[1..k -> S] : k \in 0..n}

\* ------------------------------------------------------- triangulations
\* tri.neighbors[i][k]: the simplex sharing the edge opposite vertex k of
\* simplex i, -1 where that edge lies on the boundary
Neighbor(simplices, i, k) ==
  LET e == {simplices[i][j] : j \in (1..3) \ {k}}
      c == {j \in (1..Len(simplices)) \ {i} : e \subseteq ToSet(simplices[j])}
  IN  IF c = {} THEN -1 ELSE (CHOOSE j \in c : TRUE) - 1

Triangulation(points, simplices) ==
  [points    |-> points,
   simplices |-> simplices,
   neighbors |-> [i \in 1..Len(simplices) |->
                    <<Neighbor(simplices, i, 1), Neighbor(simplices, i, 2),
                      Neighbor(simplices, i, 3)>>]]

NoTri == [points |-> <<>>, simplices |-> <<>>, neighbors |-> <<>>]

Rot(t, r) == <<t[(r % 3) + 1], t[((1 + r) % 3) + 1], t[((2 + r) % 3) + 1]>>
Orient(t, cw) == IF cw THEN <<t[1], t[3], t[2]>> ELSE t

\* the square with corners (0,0),(s,0),(s,s),(0,s) split along one diagonal;
\* cw1, cw2 give the orientation of each triangle, r1, r2 its first vertex
SquarePoints(s) == << <<0, 0>>, <<s, 0>>, <<s, s>>, <<0, s>> >>
SquareSplit(diag) == IF diag = 0 THEN << <<0, 1, 2>>, <<0, 2, 3>> >>
                                 ELSE << <<0, 1, 3>>, <<1, 2, 3>> >>
Square(s, diag, cw1, cw2, r1, r2) ==
  Triangulation(SquarePoints(s),
                << Rot(Orient(SquareSplit(diag)[1], cw1), r1),
                   Rot(Orient(SquareSplit(diag)[2], cw2), r2) >>)

\* squares whose two triangles have the same orientation
ConsistentSquaresOf(s) ==
  {Square(s, diag, cw, cw, r1, r2) :
     diag \in 0..1, cw \in BOOLEAN, r1 \in 0..2, r2 \in 0..2}
ConsistentSquares == [s \in 1..MaxSide |-> ConsistentSquaresOf(s)]

Squares ==
  {Square(s, diag, cw1, cw2, r1, r2) :
     s \in 1..MaxSide, diag \in 0..1, cw1 \in BOOLEAN, cw2 \in BOOLEAN,
     r1 \in 0..2, r2 \in 0..2}

\* seven of the eight lattice points of the circle x^2 + y^2 = 20,
\* counter-clockwise, triangulated as a fan around point 0
Fan ==
  Triangulation(<< <<4, -2>>, <<4, 2>>, <<-2, 4>>, <<-4, 2>>, <<-4, -2>>,
                   <<-2, -4>>, <<2, -4>> >>,
                << <<0, 1, 2>>, <<0, 2, 3>>, <<0, 3, 4>>, <<0, 4, 5>>,
                   <<0, 5, 6>> >>)

\* a triangulation whose simplex 1 has the collinear vertices
\* (0,0), (1,1), (2,2)
Degenerate ==
  Triangulation(<< <<0, 0>>, <<2, 0>>, <<2, 2>>, <<1, 1>> >>,
                << <<0, 1, 2>>, <<0, 3, 2>> >>)

\* malformed input: three triangles over the same edge (0,1)
Overlap ==
  Triangulation(<< <<0, 0>>, <<2, 0>>, <<0, 2>>, <<2, 2>>, <<1, 3>> >>,
                << <<0, 1, 2>>, <<0, 1, 3>>, <<0, 1, 4>> >>)

\* two triangles with different circumcircles: (2,2) lies on the circle of
\* simplex 0 and inside simplex 1
Kite ==
  Triangulation(<< <<0, 0>>, <<2, 0>>, <<3, 3>>, <<0, 2>> >>,
                << <<0, 1, 3>>, <<1, 2, 3>> >>)

Triangulations == Squares \cup {Fan, Kite, Degenerate}

\* the triangulations find_local_boundary is called with
BoundaryTriangulations == Triangulations \cup {Overlap}

\* the triangulations the natural-neighbour finders are called with: the
\* counter-clockwise squares, the fan and the degenerate one
FinderTriangulations ==
  {Square(s, diag, FALSE, FALSE, 0, 0) : s \in 1..MaxSide, diag \in 0..1}
    \cup {Fan, Kite, Degenerate}

NumSimplices(t) == Len(t.simplices)
SimplexCodes(t) == 0..(NumSimplices(t) - 1)

\* tri.points[tri.simplices[i]]
SimplexPoints(t, i) ==
  [k \in 1..3 |-> t.points[t.simplices[i + 1][k] + 1]]

QueryPoints == (0..MaxCoord) \X (0..MaxCoord)

\* the grid points find_natural_neighbors is called with: corners of the
\* squares, points inside and outside the triangulations, (1,3) and (2,3)
\* outside the kite and the fan but within a circumcircle
GridCandidates ==
  {<<0, 0>>, <<1, 1>>, <<2, 2>>, <<1, 3>>, <<2, 3>>, <<3, 1>>}

\* the edges of the free edge lists order_edges is called with, self loops
\* included, over three vertex codes
FreeVertices == {0, 1, 2}
FreeEdges == FreeVertices \X FreeVertices

\* ------------------------------------------------------------------ state
VARIABLES
  pc,             \* the running call and its position, "idle" between calls
  tri,            \* the triangulation argument of the running call
  triangles,      \* find_local_boundary: the list of simplex codes
  flb_n,          \* find_local_boundary: directed edges handled so far
  edges,          \* find_local_boundary: the working edge list
  oe_in,          \* order_edges: the argument
  edge,           \* order_edges: the current edge
  oe_edges,       \* order_edges: the remaining pool (edges after edges[1:])
  ordered_edges,  \* order_edges: the chain built so far
  num_max,        \* order_edges: iterations left
  poly,           \* area: the polygon
  area_out,       \* area: the returned value
  grid_points,    \* find_natural_neighbors: the grid points (tree.data)
  fnn_iter,       \* find_natural_neighbors: simplex codes still to process
  members,        \* find_natural_neighbors: grid index -> list of simplices
  triangle_info,  \* find_natural_neighbors: simplex -> cc and r
  cur_tri,        \* find_nn_triangles_point: the containing simplex
  point,          \* find_nn_triangles_point: the query point
  candidates,     \* find_nn_triangles_point: the candidate set
  nn_rest,        \* find_nn_triangles_point: candidates not yet visited
  nn              \* find_nn_triangles_point: the result list

flb_vars == <<triangles, flb_n, edges>>
oe_vars == <<oe_in, edge, oe_edges, ordered_edges, num_max>>
area_vars == <<poly, area_out>>
fnn_vars == <<grid_points, fnn_iter, members, triangle_info>>
nn_vars == <<cur_tri, point, candidates, nn_rest, nn>>
vars == <<pc, tri, flb_vars, oe_vars, area_vars, fnn_vars, nn_vars>>

NoEdge == <<-1, -1>>
NoPoint == <<-1, -1>>

Init ==
  /\ pc = "idle"
  /\ tri = NoTri
  /\ triangles = <<>> /\ flb_n = 0 /\ edges = <<>>
  /\ oe_in = <<>> /\ edge = NoEdge /\ oe_edges = <<>>
  /\ ordered_edges = <<>> /\ num_max = 0
  /\ poly = <<>> /\ area_out = R(0)
  /\ grid_points = <<>> /\ fnn_iter = <<>> /\ members = <<>>
  /\ triangle_info = <<>>
  /\ cur_tri = -1 /\ point = NoPoint /\ candidates = {} /\ nn_rest = {}
  /\ nn = <<>>

\* ---------------------------------------------------- find_local_boundary
\* AddEdge without the test for the edge itself: only a reverse edge cancels
AddEdgeReverseOnly(es, pt1, pt2) ==
  IF In(<<pt2, pt1>>, es) THEN ListRemove(es, <<pt2, pt1>>)
  ELSE Append(es, <<pt1, pt2>>)

\* AddEdge without the test for the reverse edge: only an equal edge cancels
AddEdgeSameOnly(es, pt1, pt2) ==
  IF In(<<pt1, pt2>>, es) THEN ListRemove(es, <<pt1, pt2>>)
  ELSE Append(es, <<pt1, pt2>>)

\* the body of the inner loop for the directed edge (pt1, pt2)
AddEdge(es, pt1, pt2) ==
  IF In(<<pt1, pt2>>, es) THEN ListRemove(es, <<pt1, pt2>>)
  ELSE IF In(<<pt2, pt1>>, es) THEN ListRemove(es, <<pt2, pt1>>)
  ELSE Append(es, <<pt1, pt2>>)

\* the triangle and the vertex position the next iteration works on
flb_triangle == triangles[(flb_n \div 3) + 1]
flb_i == flb_n % 3
flb_pt1 == tri.simplices[flb_triangle + 1][flb_i + 1]
flb_pt2 == tri.simplices[flb_triangle + 1][((flb_i + 1) % 3) + 1]

find_local_boundary_call(t, ts) ==
  /\ pc = "idle"
  /\ pc' = "flb"
  /\ tri' = t
  /\ triangles' = ts
  /\ flb_n' = 0
  /\ edges' = <<>>
  /\ UNCHANGED <<oe_vars, area_vars, fnn_vars, nn_vars>>

find_local_boundary_loop ==
  /\ pc = "flb"
  /\ flb_n < 3 * Len(triangles)
  /\ edges' = AddEdge(edges, flb_pt1, flb_pt2)
  /\ flb_n' = flb_n + 1
  /\ UNCHANGED <<pc, tri, triangles, oe_vars, area_vars, fnn_vars, nn_vars>>

find_local_boundary_return ==
  /\ pc = "flb"
  /\ flb_n = 3 * Len(triangles)
  /\ pc' = "flb_done"
  /\ UNCHANGED <<tri, flb_vars, oe_vars, area_vars, fnn_vars, nn_vars>>

\* ------------------------------------------------------------ order_edges
\* SearchEdge taking the last edge that starts at match
SearchEdgeLast(pool, match) ==
  IF \E k \in 1..Len(pool) : pool[k][1] = match
  THEN CHOOSE k \in 1..Len(pool) :
         pool[k][1] = match /\ \A j \in (k + 1)..Len(pool) : pool[j][1] # match
  ELSE 0

\* the for loop over the pool: position of the first edge starting at match,
\* 0 when the loop ends without a break
SearchEdge(pool, match) ==
  IF \E k \in 1..Len(pool) : pool[k][1] = match
  THEN CHOOSE k \in 1..Len(pool) :
         pool[k][1] = match /\ \A j \in 1..(k - 1) : pool[j][1] # match
  ELSE 0

\* num_max left as it is
NextNumMaxKept(n) == n

\* num_max -= 1
NextNumMax(n) == n - 1

\* edges[0] on an empty list raises IndexError
order_edges_call(es) ==
  /\ oe_in' = es
  /\ IF es = <<>>
     THEN /\ pc' = "oe_raised"
          /\ UNCHANGED <<edge, oe_edges, ordered_edges, num_max>>
     ELSE /\ pc' = "oe"
          /\ edge' = es[1]
          /\ oe_edges' = Tail(es)
          /\ ordered_edges' = <<es[1]>>
          /\ num_max' = Len(Tail(es))
  /\ UNCHANGED <<tri, flb_vars, area_vars, fnn_vars, nn_vars>>

\* order_edges on a list given by the caller
order_free_edges ==
  /\ pc = "idle"
  /\ \E es \in SeqsUpTo(FreeEdges, MaxEdges) : order_edges_call(es)

\* order_edges on the list find_local_boundary returned
order_boundary_edges ==
  /\ pc = "flb_done"
  /\ order_edges_call(edges)

\* one iteration of the while loop
order_edges_loop ==
  /\ pc = "oe"
  /\ Len(oe_edges) > 0 /\ num_max > 0
  /\ LET match == edge[2]
         k == SearchEdge(oe_edges, match)
     IN  IF k > 0
         THEN /\ edge' = oe_edges[k]
              /\ oe_edges' = ListRemove(oe_edges, oe_edges[k])
              /\ ordered_edges' = Append(ordered_edges, oe_edges[k])
         ELSE UNCHANGED <<edge, oe_edges, ordered_edges>>
  /\ num_max' = NextNumMax(num_max)
  /\ UNCHANGED <<pc, tri, oe_in, flb_vars, area_vars, fnn_vars, nn_vars>>

order_edges_return ==
  /\ pc = "oe"
  /\ ~(Len(oe_edges) > 0 /\ num_max > 0)
  /\ pc' = "oe_done"
  /\ UNCHANGED <<tri, flb_vars, oe_vars, area_vars, fnn_vars, nn_vars>>

\* ------------------------------------------------------------------- area
\* the sum accumulated by the first i iterations of the loop
RECURSIVE ShoelaceSum(_, _)
ShoelaceSum(p, i) ==
  IF i = 0 THEN 0
  ELSE LET n == Len(p)
           k == i - 1
       IN  ShoelaceSum(p, i - 1)
             + (p[k + 1][1] * p[((k + 1) % n) + 1][2]
                - p[((k + 1) % n) + 1][1] * p[k + 1][2])

\* area without the halving
areaNotHalved(p) == R(Abs(ShoelaceSum(p, Len(p))))

area(p) == RDiv(R(Abs(ShoelaceSum(p, Len(p)))), R(2))

\* the coordinates of the start vertices of an ordered boundary
BoundaryPolygon(t, oe) == [k \in 1..Len(oe) |-> t.points[oe[k][1] + 1]]

\* area of the polygon traced by the ordered boundary of tri
area_call ==
  /\ pc = "oe_done"
  /\ tri # NoTri
  /\ pc' = "area_done"
  /\ poly' = BoundaryPolygon(tri, ordered_edges)
  /\ area_out' = area(BoundaryPolygon(tri, ordered_edges))
  /\ UNCHANGED <<tri, flb_vars, oe_vars, fnn_vars, nn_vars>>

\* ------------------------------------------------- find_natural_neighbors
Cross(o, a, b) == (a[1] - o[1]) * (b[2] - o[2]) - (a[2] - o[2]) * (b[1] - o[1])
Min2(a, b) == IF a < b THEN a ELSE b
Max2(a, b) == IF a < b THEN b ELSE a

\* p lies in the closed triangle ps
InSimplex(p, ps) ==
  LET d1 == Cross(ps[1], ps[2], p)
      d2 == Cross(ps[2], ps[3], p)
      d3 == Cross(ps[3], ps[1], p)
  IN  /\ \/ (d1 >= 0 /\ d2 >= 0 /\ d3 >= 0)
         \/ (d1 <= 0 /\ d2 <= 0 /\ d3 <= 0)
      /\ \A c \in 1..2 :
           /\ Min2(ps[1][c], Min2(ps[2][c], ps[3][c])) <= p[c]
           /\ p[c] <= Max2(ps[1][c], Max2(ps[2][c], ps[3][c]))

\* tri.find_simplex(p): a simplex containing p, -1 when there is none
find_simplex(t, p) ==
  IF \E i \in SimplexCodes(t) : InSimplex(p, SimplexPoints(t, i))
  THEN CHOOSE i \in SimplexCodes(t) : InSimplex(p, SimplexPoints(t, i))
  ELSE -1

\* in_triangulation = tri.find_simplex(tree.data) >= 0
in_triangulation(t, grid) ==
  [q \in 0..(Len(grid) - 1) |-> find_simplex(t, grid[q + 1]) >= 0]

\* query_ball_point with an open ball
query_ball_point_open(grid, cc, r) ==
  {q \in 0..(Len(grid) - 1) :
     RLess(dist_2(R(grid[q + 1][1]), R(grid[q + 1][2]), cc[1], cc[2]),
           r.v.sq)}

\* tree.query_ball_point(cc, r): the grid indices within distance r of cc
query_ball_point(grid, cc, r) ==
  {q \in 0..(Len(grid) - 1) :
     SLeq(Sqrt(dist_2(R(grid[q + 1][1]), R(grid[q + 1][2]), cc[1], cc[2])),
          r.v)}

\* ProcessSimplex recording a simplex only for a grid point without members
ProcessSimplexFirstOnly(t, grid, mem, info, i) ==
  LET ps == SimplexPoints(t, i)
      c == circumcenter(ps[1], ps[2], ps[3])
      r == circumcircle_radius(ps[1], ps[2], ps[3])
      qualifiers == query_ball_point(grid, c.cc, r)
  IN  IF c.raised
      THEN [raised |-> TRUE, members |-> mem, triangle_info |-> info]
      ELSE [raised |-> FALSE,
            members |->
              [q \in DOMAIN mem |->
                 IF q \in qualifiers /\ in_triangulation(t, grid)[q]
                    /\ mem[q] = <<>>
                 THEN Append(mem[q], i) ELSE mem[q]],
            triangle_info |-> (i :> [cc |-> c.cc, r |-> r]) @@ info]

\* the body of the loop over the simplices, for simplex i
ProcessSimplex(t, grid, mem, info, i) ==
  LET ps == SimplexPoints(t, i)
      c == circumcenter(ps[1], ps[2], ps[3])
      r == circumcircle_radius(ps[1], ps[2], ps[3])
      qualifiers == query_ball_point(grid, c.cc, r)
  IN  IF c.raised
      THEN [raised |-> TRUE, members |-> mem, triangle_info |-> info]
      ELSE [raised |-> FALSE,
            members |->
              [q \in DOMAIN mem |->
                 IF q \in qualifiers /\ in_triangulation(t, grid)[q]
                 THEN Append(mem[q], i) ELSE mem[q]],
            triangle_info |-> (i :> [cc |-> c.cc, r |-> r]) @@ info]

\* enumerate(tri.simplices)
EnumerateOrder(t) == [k \in 1..NumSimplices(t) |-> k - 1]

find_natural_neighbors_call(t, grid, order) ==
  /\ pc = "idle"
  /\ pc' = "fnn"
  /\ tri' = t
  /\ grid_points' = grid
  /\ fnn_iter' = order
  /\ members' = [key \in 0..(Len(grid) - 1) |-> <<>>]
  /\ triangle_info' = <<>>
  /\ UNCHANGED <<flb_vars, oe_vars, area_vars, nn_vars>>

find_natural_neighbors_loop ==
  /\ pc = "fnn"
  /\ fnn_iter # <<>>
  /\ LET b == ProcessSimplex(tri, grid_points, members, triangle_info,
                             Head(fnn_iter))
     IN  IF b.raised
         THEN /\ pc' = "fnn_raised"
              /\ UNCHANGED <<fnn_iter, members, triangle_info>>
         ELSE /\ pc' = pc
              /\ fnn_iter' = Tail(fnn_iter)
              /\ members' = b.members
              /\ triangle_info' = b.triangle_info
  /\ UNCHANGED <<tri, grid_points, flb_vars, oe_vars, area_vars, nn_vars>>

find_natural_neighbors_return ==
  /\ pc = "fnn"
  /\ fnn_iter = <<>>
  /\ pc' = "fnn_done"
  /\ UNCHANGED <<tri, flb_vars, oe_vars, area_vars, fnn_vars, nn_vars>>

\* ------------------------------------------------ find_nn_triangles_point
\* set(tri.neighbors[cur_tri]) | set(tri.neighbors[tri.neighbors[cur_tri]].flat)
\* with -1 discarded; the inner index array is used as it is
Candidates(t, cur) ==
  LET first == ToSet(Row(t.neighbors, cur))
      second == UNION {ToSet(Row(t.neighbors, j)) : j \in first}
  IN  (first \cup second) \ {-1}

\* InCircumcircle with a closed ball
InCircumcircleClosed(d2, r2) == (~r2.nan) /\ RLeq(d2, r2.v)

\* dist_2(point, circumcenter) < circumcircle_radius_2
InCircumcircle(d2, r2) == (~r2.nan) /\ RLess(d2, r2.v)

find_nn_triangles_point_call(t, cur, p) ==
  /\ pc = "idle"
  /\ pc' = "nn"
  /\ tri' = t
  /\ cur_tri' = cur
  /\ point' = p
  /\ candidates' = Candidates(t, cur)
  /\ nn_rest' = Candidates(t, cur)
  /\ nn' = <<>>
  /\ UNCHANGED <<flb_vars, oe_vars, area_vars, fnn_vars>>

\* one iteration of the loop over the candidate set, whose iteration order
\* is the set's own
find_nn_triangles_point_loop ==
  /\ pc = "nn"
  /\ \E neighbor \in nn_rest :
       LET triangle == SimplexPoints(tri, neighbor)
           c == circumcenter(triangle[1], triangle[2], triangle[3])
           r == circumcircle_radius_2(triangle[1], triangle[2], triangle[3])
       IN  IF c.raised
           THEN /\ pc' = "nn_raised"
                /\ UNCHANGED <<nn_rest, nn>>
           ELSE /\ pc' = pc
                /\ nn_rest' = nn_rest \ {neighbor}
                /\ nn' = IF InCircumcircle(dist_2(R(point[1]), R(point[2]),
                                                  c.cc[1], c.cc[2]), r)
                         THEN Append(nn, neighbor) ELSE nn
  /\ UNCHANGED <<tri, cur_tri, point, candidates, flb_vars, oe_vars,
                 area_vars, fnn_vars>>

find_nn_triangles_point_return ==
  /\ pc = "nn"
  /\ nn_rest = {}
  /\ pc' = "nn_done"
  /\ UNCHANGED <<tri, flb_vars, oe_vars, area_vars, fnn_vars, nn_vars>>

\* ---------------------------------------------------------- specification
\* the caller drops the results of a finished or failed call
Finish ==
  /\ pc \in {"flb_done", "oe_done", "oe_raised", "area_done", "fnn_done",
             "fnn_raised", "nn_done", "nn_raised"}
  /\ pc' = "idle"
  /\ tri' = NoTri
  /\ triangles' = <<>> /\ flb_n' = 0 /\ edges' = <<>>
  /\ oe_in' = <<>> /\ edge' = NoEdge /\ oe_edges' = <<>>
  /\ ordered_edges' = <<>> /\ num_max' = 0
  /\ poly' = <<>> /\ area_out' = R(0)
  /\ grid_points' = <<>> /\ fnn_iter' = <<>> /\ members' = <<>>
  /\ triangle_info' = <<>>
  /\ cur_tri' = -1 /\ point' = NoPoint /\ candidates' = {} /\ nn_rest' = {}
  /\ nn' = <<>>

GridLists(n) == UNION {[1..k -> GridCandidates] : k \in 1..n}

find_local_boundary_start ==
  /\ pc = "idle"
  /\ \E t \in BoundaryTriangulations :
       \E ts \in SeqsUpTo(SimplexCodes(t), MaxTris) :
         find_local_boundary_call(t, ts)

find_natural_neighbors_start ==
  /\ pc = "idle"
  /\ \E t \in FinderTriangulations :
       \E grid \in GridLists(MaxGrid) :
         find_natural_neighbors_call(t, grid, EnumerateOrder(t))

\* cur_tri is a simplex that contains the point
find_nn_triangles_point_start ==
  /\ pc = "idle"
  /\ \E t \in FinderTriangulations :
       \E cur \in SimplexCodes(t) :
         \E p \in QueryPoints :
           /\ InSimplex(p, SimplexPoints(t, cur))
           /\ find_nn_triangles_point_call(t, cur, p)

Next ==
  \/ find_local_boundary_start
  \/ find_local_boundary_loop
  \/ find_local_boundary_return
  \/ order_free_edges
  \/ order_boundary_edges
  \/ order_edges_loop
  \/ order_edges_return
  \/ area_call
  \/ find_natural_neighbors_start
  \/ find_natural_neighbors_loop
  \/ find_natural_neighbors_return
  \/ find_nn_triangles_point_start
  \/ find_nn_triangles_point_loop
  \/ find_nn_triangles_point_return
  \/ Finish

Spec == Init /\ [][Next]_vars

\* find_natural_neighbors with its loop taking the simplices in any order
Orders(t) ==
  {f \in [1..NumSimplices(t) -> SimplexCodes(t)] :
     \A j, k \in 1..NumSimplices(t) : j # k => f[j] # f[k]}

find_natural_neighbors_any_order ==
  /\ pc = "idle"
  /\ \E t \in FinderTriangulations :
       \E order \in Orders(t) :
         \E grid \in GridLists(MaxGridAnyOrder) :
           find_natural_neighbors_call(t, grid, order)

NextAnyOrder ==
  \/ find_natural_neighbors_any_order
  \/ find_natural_neighbors_loop
  \/ find_natural_neighbors_return
  \/ Finish

SpecAnyOrder == Init /\ [][NextAnyOrder]_vars

\* order_edges runs to its return: each statement is followed by the next
FairSpec == Spec /\ WF_vars(order_edges_loop) /\ WF_vars(order_edges_return)

\* ================================================================= claims
Count(lst, x) == Cardinality({k \in 1..Len(lst) : lst[k] = x})
Last(lst) == lst[Len(lst)]
\* lst without its k-th element
Without(lst, k) ==
  [j \in 1..(Len(lst) - 1) |-> IF j < k THEN lst[j] ELSE lst[j + 1]]

\* the undirected edges of simplex i
UEdges(t, i) ==
  LET sx == t.simplices[i + 1]
  IN  {{sx[1], sx[2]}, {sx[2], sx[3]}, {sx[3], sx[1]}}
\* the number of listed triangles an undirected edge belongs to
Uses(t, ts, e) == Cardinality({k \in 1..Len(ts) : e \in UEdges(t, ts[k])})
ListedEdges(t, ts) == UNION {UEdges(t, ts[k]) : k \in 1..Len(ts)}
Undirected(e) == {e[1], e[2]}

Distinct(lst) == \A j, k \in 1..Len(lst) : j # k => lst[j] # lst[k]
C1_Pre ==
  /\ pc = "flb_done"
  /\ Distinct(triangles)
  /\ \A e \in ListedEdges(tri, triangles) : Uses(tri, triangles, e) <= 2

\* C1: when find_local_boundary returns for a list of distinct simplex codes
\* in which every undirected edge belongs to at most two listed triangles,
\* the returned list holds, as undirected pairs, exactly the edges of exactly
\* one listed triangle, each once, and no edge shared by two listed triangles.
C1_BoundaryEdges ==
  C1_Pre =>
    /\ \A e \in ListedEdges(tri, triangles) :
         Cardinality({k \in 1..Len(edges) : Undirected(edges[k]) = e})
           = (IF Uses(tri, triangles, e) = 1 THEN 1 ELSE 0)
    /\ \A k \in 1..Len(edges) :
         Undirected(edges[k]) \in ListedEdges(tri, triangles)

\* a boundary was assembled from three triangles, two edges being shared
C1_Witness ==
  /\ C1_Pre
  /\ Len(triangles) = 3
  /\ Cardinality({e \in ListedEdges(tri, triangles) :
                    Uses(tri, triangles, e) = 2}) = 2
  /\ Len(edges) = 5

\* the step find_local_boundary is about to take
FlbStepping == pc = "flb" /\ flb_n < 3 * Len(triangles)

\* C9 (as claimed): the directed edge (a,b) removes its reverse (b,a) when
\* that is in the working list and is appended at the end otherwise.
C9_Original ==
  [][FlbStepping =>
       edges' = (IF In(<<flb_pt2, flb_pt1>>, edges)
                 THEN ListRemove(edges, <<flb_pt2, flb_pt1>>)
                 ELSE Append(edges, <<flb_pt1, flb_pt2>>))]_vars

\* C9 (amended): the directed edge (a,b) removes the one occurrence of (a,b)
\* or of its reverse (b,a) that is in the working list, keeping the order of
\* the others, and is not added; it is appended at the end when neither is in
\* the list.  The list only shrinks by such a cancellation, by one edge.
C9_StepRule ==
  [][FlbStepping =>
       LET ab == <<flb_pt1, flb_pt2>>
           ba == <<flb_pt2, flb_pt1>>
       IN  /\ (In(ab, edges) \/ In(ba, edges)) =>
                \E k \in 1..Len(edges) :
                  /\ edges[k] \in {ab, ba}
                  /\ edges' = Without(edges, k)
           /\ ~(In(ab, edges) \/ In(ba, edges)) => edges' = Append(edges, ab)
           /\ Count(edges', ab) + Count(edges', ba) <= 1]_vars

\* an edge is about to cancel an equal edge, after an earlier cancellation
C9_Witness ==
  /\ FlbStepping
  /\ In(<<flb_pt1, flb_pt2>>, edges)
  /\ flb_n >= 4
  /\ Len(edges) < flb_n

\* the two triangles of a square of side s, same orientation, both listed
SquareRun(s) ==
  /\ triangles \in {<<0, 1>>, <<1, 0>>}
  /\ tri \in ConsistentSquares[s]
ClosedChain(oe) ==
  /\ \A k \in 1..(Len(oe) - 1) : oe[k][2] = oe[k + 1][1]
  /\ Last(oe)[2] = oe[1][1]

\* C2: on a square of side s split into two triangles of the same
\* orientation, find_local_boundary over both triangles returns the 4 outer
\* edges without the diagonal, order_edges returns all 4 as one closed chain,
\* and area over the chain's start vertices is s*s.
C2_SquareRoundTrip ==
  \A s \in 1..MaxSide :
    SquareRun(s) =>
      /\ pc = "flb_done" =>
           /\ Len(edges) = 4
           /\ {Undirected(edges[k]) : k \in 1..Len(edges)}
                = {{0, 1}, {1, 2}, {2, 3}, {3, 0}}
      /\ pc = "oe_done" =>
           /\ Len(ordered_edges) = 4
           /\ ToSet(ordered_edges) = ToSet(edges)
           /\ ClosedChain(ordered_edges)
      /\ pc = "area_done" => area_out = R(s * s)

\* the area of the ordered boundary of a square of side 2 was computed
C2_Witness ==
  /\ pc = "area_done"
  /\ SquareRun(2)
  /\ Len(poly) = 4
  /\ area_out = R(4)

OeRunning == pc \in {"oe", "oe_done"}

C3_Chain ==
  OeRunning =>
    /\ ordered_edges[1] = oe_in[1]
    /\ \A k \in 1..(Len(ordered_edges) - 1) :
         ordered_edges[k][2] = ordered_edges[k + 1][1]
    /\ \A e \in ToSet(ordered_edges) :
         Count(ordered_edges, e) <= Count(oe_in, e)

C3_Append ==
  (pc = "oe" /\ ordered_edges' # ordered_edges) =>
    \E k \in 1..Len(oe_edges) :
      /\ oe_edges[k][1] = Last(ordered_edges)[2]
      /\ \A j \in 1..(k - 1) : oe_edges[j][1] # Last(ordered_edges)[2]
      /\ ordered_edges' = Append(ordered_edges, oe_edges[k])
      /\ oe_edges' = Without(oe_edges, k)

\* C3: for a non-empty edge list, the output of order_edges starts with the
\* input's first edge, each output edge ends where the next starts, the
\* output is a sub-multiset of the input, and each appended edge is the first
\* edge of the remaining pool that starts at the end of the current edge.
C3_OrderEdges == []C3_Chain /\ [][C3_Append]_vars

\* a chain of two edges was built from three edges of which two leave the
\* same vertex, the later of the two being left unused
C3_Witness ==
  /\ pc = "oe_done"
  /\ Len(oe_in) = 3
  /\ Len(ordered_edges) = 2
  /\ oe_in[2][1] = oe_in[3][1]
  /\ oe_in[2] # oe_in[3]
  /\ ordered_edges = <<oe_in[1], oe_in[2]>>

\* no edge of the pool starts where the chain ends
NoMatch == \A k \in 1..Len(oe_edges) : oe_edges[k][1] # Last(ordered_edges)[2]

\* the edge list is one simple directed cycle, in any order
RECURSIVE Walk(_, _, _)
Walk(es, v, n) ==
  IF n = 0 THEN {}
  ELSE {v} \cup Walk(es, (CHOOSE e \in ToSet(es) : e[1] = v)[2], n - 1)
SimpleCycle(es) ==
  /\ Len(es) >= 1
  /\ Cardinality({es[k][1] : k \in 1..Len(es)}) = Len(es)
  /\ Cardinality({es[k][2] : k \in 1..Len(es)}) = Len(es)
  /\ {es[k][1] : k \in 1..Len(es)} = {es[k][2] : k \in 1..Len(es)}
  /\ Cardinality(Walk(es, es[1][1], Len(es))) = Len(es)

C10_Terminates == (pc = "oe") ~> (pc = "oe_done")
C10_Stops ==
  (pc = "oe" /\ NoMatch) =>
    (ordered_edges' = ordered_edges /\ (pc' = "oe" => NoMatch'))
C10_Cycle ==
  (pc = "oe_done" /\ SimpleCycle(oe_in)) =>
    /\ Len(ordered_edges) = Len(oe_in)
    /\ \A e \in ToSet(oe_in) : Count(ordered_edges, e) = 1

\* C10: every call of order_edges on a non-empty list reaches its return; once
\* no remaining edge starts at the end of the chain no edge is added any
\* more; and on a single simple directed cycle, in any insertion order, every
\* input edge is returned exactly once.
C10_Termination == C10_Terminates /\ [][C10_Stops]_vars /\ []C10_Cycle

\* order_edges returned a chain of two of three edges, the third not
\* starting at the chain's end, having used up its iterations
C10_Witness ==
  /\ pc = "oe_done"
  /\ Len(oe_in) = 3
  /\ Len(ordered_edges) = 2
  /\ oe_edges # <<>>
  /\ NoMatch
  /\ num_max = 0

\* the simplices adjacent to simplex i, -1 meaning "no neighbour"
Adjacent(t, i) == ToSet(t.neighbors[i + 1]) \ {-1}
\* the neighbours of simplex cur and their neighbours
Pool(t, cur) == Adjacent(t, cur) \cup UNION {Adjacent(t, j) : j \in Adjacent(t, cur)}

\* C4: every element of the result of find_nn_triangles_point is a simplex
\* code, never -1, that is a neighbour of containing_simplex or a neighbour
\* of one of its neighbours, and no other simplex is tested.
C4_ResultInPool ==
  pc = "nn_done" =>
    /\ \A k \in 1..Len(nn) : nn[k] # -1 /\ nn[k] \in Pool(tri, cur_tri)
    /\ candidates \subseteq Pool(tri, cur_tri)

\* squared distance from p to the circumcenter of simplex c, and the squared
\* circumradius of c
PointDist2(t, c, p) ==
  LET ps == SimplexPoints(t, c)
      o == circumcenter(ps[1], ps[2], ps[3]).cc
  IN  dist_2(R(p[1]), R(p[2]), o[1], o[2])
Radius2(t, c) ==
  LET ps == SimplexPoints(t, c)
  IN  circumcircle_radius_2(ps[1], ps[2], ps[3]).v

\* C5: when find_nn_triangles_point returns, a candidate is in the result
\* exactly when the squared distance from the point to its circumcenter is
\* strictly less than its squared circumradius (a point on the circumcircle
\* does not make it a member), and no simplex is in the result twice.
C5_OpenBall ==
  pc = "nn_done" =>
    /\ \A c \in candidates :
         /\ In(c, nn) <=> RLess(PointDist2(tri, c, point), Radius2(tri, c))
         /\ Count(nn, c) <= 1
    /\ ToSet(nn) \subseteq candidates

\* the point lies on the circumcircle of one candidate, which was left out,
\* and inside that of another, which was returned
C5_Witness ==
  /\ pc = "nn_done"
  /\ \E c \in candidates :
       /\ PointDist2(tri, c, point) = Radius2(tri, c)
       /\ ~In(c, nn)
  /\ nn # <<>>

Degenerates(t) ==
  {i \in SimplexCodes(t) :
     LET ps == SimplexPoints(t, i)
     IN  triangle_area(ps[1], ps[2], ps[3]) = R(0)}

\* grid point g lies in the closed circumdisc of simplex i
InClosedBall(t, i, g) ==
  LET ps == SimplexPoints(t, i)
      o == circumcenter(ps[1], ps[2], ps[3]).cc
  IN  SLeq(Sqrt(dist_2(R(g[1]), R(g[2]), o[1], o[2])),
           circumcircle_radius(ps[1], ps[2], ps[3]).v)

\* C6: for a triangulation without degenerate simplex, the map returned by
\* find_natural_neighbors has one key per grid point; simplex i is in
\* members[g] exactly when g is inside the triangulation and within the
\* circumradius of i of its circumcenter (closed ball); no i occurs twice; a
\* grid point outside the triangulation has an empty list.
C6_Membership ==
  (pc = "fnn_done" /\ Degenerates(tri) = {}) =>
    /\ DOMAIN members = 0..(Len(grid_points) - 1)
    /\ \A g \in 0..(Len(grid_points) - 1) :
         /\ \A i \in SimplexCodes(tri) :
              /\ In(i, members[g]) <=>
                   /\ find_simplex(tri, grid_points[g + 1]) >= 0
                   /\ InClosedBall(tri, i, grid_points[g + 1])
              /\ Count(members[g], i) <= 1
         /\ ToSet(members[g]) \subseteq SimplexCodes(tri)
         /\ find_simplex(tri, grid_points[g + 1]) < 0 => members[g] = <<>>

\* one grid point lies on a circumcircle and is a member, another lies in a
\* circumdisc but outside the triangulation and has no members
C6_Witness ==
  /\ pc = "fnn_done"
  /\ Len(grid_points) = 2
  /\ \E g \in 0..1 : \E i \in SimplexCodes(tri) :
       /\ In(i, members[g])
       /\ ~RLess(PointDist2(tri, i, grid_points[g + 1]), Radius2(tri, i))
  /\ \E g \in 0..1 : \E i \in SimplexCodes(tri) :
       /\ InClosedBall(tri, i, grid_points[g + 1])
       /\ members[g] = <<>>

\* C7: a triangulation with a zero-area simplex does not abort
\* find_natural_neighbors: the call never ends in the ZeroDivisionError.
C7_NoAbort == Degenerates(tri) # {} => pc # "fnn_raised"

\* the state the loop of find_natural_neighbors reaches after the first k
\* simplices of order
RECURSIVE RunInOrder(_, _, _, _)
RunInOrder(t, grid, order, k) ==
  IF k = 0
  THEN [raised |-> FALSE,
        members |-> [key \in 0..(Len(grid) - 1) |-> <<>>],
        triangle_info |-> <<>>]
  ELSE LET prev == RunInOrder(t, grid, order, k - 1)
       IN  IF prev.raised THEN prev
           ELSE ProcessSimplex(t, grid, prev.members, prev.triangle_info,
                               order[k])

\* C8: whatever the order in which find_natural_neighbors processes the
\* simplices, the returned map gives every grid point the same set of
\* simplices, and triangle_info the same entries, as the order of
\* enumerate(tri.simplices) does.
C8_OrderIndependent ==
  pc = "fnn_done" =>
    LET ref == RunInOrder(tri, grid_points, EnumerateOrder(tri),
                          NumSimplices(tri))
    IN  /\ ~ref.raised
        /\ DOMAIN members = DOMAIN ref.members
        /\ \A g \in DOMAIN members :
             ToSet(members[g]) = ToSet(ref.members[g])
        /\ triangle_info = ref.triangle_info

\* a call that took the simplices out of order returned, some grid point
\* having three members listed in descending order
C8_Witness ==
  /\ pc = "fnn_done"
  /\ \E g \in DOMAIN members :
       /\ Len(members[g]) >= 3
       /\ members[g][1] > members[g][2]
       /\ members[g][2] > members[g][3]

====
